---- MODULE Spec2Model ----
(***************************************************************************)
(* Model of the visual-inspection pipeline of google_workspace_mcp:        *)
(*   src/core/visual_rendering.py  (_resize_if_needed, render_image,       *)
(*       convert_html_to_pdf, convert_pdf_to_images, render_document_page) *)
(*   src/system/local_tools.py     (get_local_file_visual)                 *)
(*                                                                         *)
(* Texts are sequences of string tokens: the literal pieces of an f-string *)
(* and the decimal rendering (ToString) of the interpolated integers.  The *)
(* leading word "Error" of a message is a token of its own, so that        *)
(* "begins with Error" is a test on the first token.                       *)
(*                                                                         *)
(* Optional values (Python's None) are <<>> and <<v>>.                     *)
(***************************************************************************)
EXTENDS Integers, Sequences, FiniteSets, TLC

\* ------------------------------------------------------------------ bounds
\* bitmaps have width and height in 1..MaxSide
MaxSide == 3
\* documents have 0..MaxPages pages; page numbers range over -1..MaxPages+1
MaxPages == 2
\* max_dimension ranges over None and 0..MaxBound
MaxBound == 3
\* number of concurrent tool invocations of the cooperative scheduler
NumCalls == 2

None == <<>>
Some(v) == <<v>>

Max(a, b) == IF a >= b THEN a ELSE b
Abs(a) == IF a >= 0 THEN a ELSE 0 - a

\* an outcome of a call: a returned value or a raised exception (val is then
\* str(e) as tokens), with the collaborator invocations it made
Out(ok, val, trace) == [ok |-> ok, val |-> val, trace |-> trace]
\* one collaborator invocation; first/last are the page-range keyword
\* arguments handed to the rasterizer (None: keyword not passed)
Event(op, first, last, failed) == [op |-> op, first |-> first, last |-> last, failed |-> failed]
Ev(op, failed) == Event(op, None, None, failed)

\* F applied to the value of v: v is evaluated once, as the right-hand side
\* of a Python assignment is, however often the continuation F reads it
Bind(v, F(_)) == CHOOSE x \in {F(y) : y \in {v}} : TRUE

TextItem(tokens) == [type |-> "text", text |-> tokens]

\* ----------------------------------------------------------- the file system
\* file contents ("bytes")
ImageBytes(codec, size, mode, page) == [kind |-> "image", codec |-> codec, size |-> size, mode |-> mode, page |-> page]
PdfBytes(id, pages, psize, raster) == [kind |-> "pdf", id |-> id, pages |-> pages, psize |-> psize, raster |-> raster]
HtmlText(id, layout, pdf) == [kind |-> "html", id |-> id, layout |-> layout, pdf |-> pdf]
Garbage == [kind |-> "garbage"]
ZipBytes == [kind |-> "zip"]

Path(stem, ext) == [stem |-> stem, ext |-> ext]
PathStr(path) == IF path.ext = "" THEN path.stem ELSE path.stem \o "." \o path.ext

Sizes == (1..MaxSide) \X (1..MaxSide)
SizeStr(size) == ToString(size[1]) \o "x" \o ToString(size[2])

\* page sizes of the documents of the model
PageSizes == {<<MaxSide, 2>>, <<1, MaxSide>>}

OkPdfs == {PdfBytes("doc" \o ToString(n) \o "p" \o SizeStr(s), n, s, "ok") : n \in 0..MaxPages, s \in PageSizes}
BadPdfs == {PdfBytes("raises" \o ToString(n), n, <<1, 1>>, "raises") : n \in 1..MaxPages}
             \cup {PdfBytes("empty" \o ToString(n), n, <<1, 1>>, "empty") : n \in 1..MaxPages}
Pdfs == OkPdfs \cup BadPdfs

Images == {ImageBytes("PNG", s, "RGB", 0) : s \in Sizes}
            \cup {ImageBytes("PNG", <<MaxSide, 1>>, "RGBA", 0), ImageBytes("JPEG", <<2, MaxSide>>, "RGB", 0)}

Htmls == {HtmlText("page-" \o p.id, "ok", p) : p \in {q \in OkPdfs : q.psize = <<MaxSide, 2>> /\ q.pages >= 1}}
           \cup {HtmlText("page-" \o p.id, "ok", p) : p \in {q \in BadPdfs : q.pages = 1}}
           \cup {HtmlText("unlayoutable", "fails", Garbage)}

File(path, bytes) == [path |-> path, node |-> "file", bytes |-> bytes]

Files ==
    {File(Path("/img" \o SizeStr(b.size) \o b.mode \o b.codec, IF b.codec = "JPEG" THEN "jpg" ELSE "png"), b) : b \in Images}
    \cup {File(Path("/" \o p.id, "pdf"), p) : p \in Pdfs}
    \cup {File(Path("/" \o h.id, "html"), h) : h \in Htmls}
    \cup {File(Path("/corrupt", "png"), Garbage),
          File(Path("/corrupt", "pdf"), Garbage),
          File(Path("/binary", "html"), Garbage),
          File(Path("/archive", "zip"), ZipBytes),
          File(Path("/README", ""), Garbage),
          [path |-> Path("/folder", ""), node |-> "dir", bytes |-> Garbage],
          [path |-> Path("/folder.d", "pdf"), node |-> "dir", bytes |-> Garbage]}

MissingPaths == {Path("/nowhere", "pdf"), Path("/nowhere", "png")}
Paths == {f.path : f \in Files} \cup MissingPaths

Stat(path) ==
    IF \E f \in Files : f.path = path
    THEN CHOOSE f \in Files : f.path = path
    ELSE [path |-> path, node |-> "missing", bytes |-> Garbage]

\* os.path.exists / os.path.isfile
PathExists(path) == Stat(path).node # "missing"
PathIsFile(path) == Stat(path).node = "file"

\* open(path).read() as raw bytes, by a collaborator that takes a path
ReadBytes(path) ==
    IF PathIsFile(path) THEN Out(TRUE, Stat(path).bytes, <<>>)
    ELSE Out(FALSE, <<"[Errno] cannot open ", PathStr(path)>>, <<>>)

\* mimetypes.guess_type(path)[0]: by the extension; a MIME type is the
\* sequence of its "/"-separated segments
GuessType(path) ==
    CASE path.ext = "png"  -> Some(<<"image", "png">>)
      [] path.ext = "jpg"  -> Some(<<"image", "jpeg">>)
      [] path.ext = "pdf"  -> Some(<<"application", "pdf">>)
      [] path.ext = "html" -> Some(<<"text", "html">>)
      [] path.ext = "zip"  -> Some(<<"application", "zip">>)
      [] OTHER -> None

RECURSIVE JoinSlash(_)
JoinSlash(segs) ==
    IF Len(segs) = 0 THEN ""
    ELSE IF Len(segs) = 1 THEN segs[1]
    ELSE segs[1] \o "/" \o JoinSlash(Tail(segs))

\* str.upper() / str.lower() on the subtypes and format names of the model
Upper(s) ==
    CASE s = "png" -> "PNG" [] s = "jpg" -> "JPG" [] s = "jpeg" -> "JPEG"
      [] s = "gif" -> "GIF" [] s = "svg+xml" -> "SVG+XML" [] OTHER -> s
Lower(s) ==
    CASE s = "PNG" -> "png" [] s = "JPG" -> "jpg" [] s = "JPEG" -> "jpeg"
      [] s = "GIF" -> "gif" [] s = "SVG+XML" -> "svg+xml" [] OTHER -> s

\* ------------------------------------------------- collaborators: image codec
Bitmap(size, mode, page) == [size |-> size, mode |-> mode, page |-> page]

\* PIL.Image.open on a byte buffer
PILOpenBytes(b) ==
    IF b.kind = "image"
    THEN Out(TRUE, Bitmap(b.size, b.mode, b.page), <<Ev("decode", FALSE)>>)
    ELSE Out(FALSE, <<"cannot identify image file">>, <<Ev("decode", TRUE)>>)

\* PIL.Image.open on what reading a path gave
PILOpenRead(read) ==
    Bind(read, LAMBDA r :
        IF r.ok THEN PILOpenBytes(r.val) ELSE Out(FALSE, r.val, <<Ev("decode", TRUE)>>))

\* PIL.Image.open on a path
PILOpenPath(path) == PILOpenRead(ReadBytes(path))

\* the encodings PIL can write in the model
KnownFormats == {"PNG", "JPEG", "GIF"}

\* PIL.Image.Image.save(buffer, format=fmt)
PILSave(img, fmt) ==
    IF fmt \notin KnownFormats
    THEN Out(FALSE, <<"'", fmt, "'">>, <<Ev("encode", TRUE)>>)
    ELSE IF fmt = "JPEG" /\ img.mode = "RGBA"
    THEN Out(FALSE, <<"cannot write mode RGBA as JPEG">>, <<Ev("encode", TRUE)>>)
    ELSE Out(TRUE, ImageBytes(fmt, img.size, img.mode, img.page), <<Ev("encode", FALSE)>>)

\* fastmcp Image(data=..., format=...).to_image_content()
ImageContent(data, format) == [type |-> "image", format |-> format, data |-> data]

\* the floor-or-ceiling candidate of PIL's round_aspect with the smaller
\* key (ties go to the floor, which min() sees first), at least 1
Closest(f, c, keyf, keyc) == Max(IF keyf <= keyc THEN f ELSE c, 1)

Ceil(num, den) == IF num % den = 0 THEN num \div den ELSE (num \div den) + 1

\* PIL's round_aspect for the width, height >= width: the candidates are the
\* floor and the ceiling of m*w/h and the key of n is |w/h - n/m|, compared
\* here after multiplying by h*m
RoundAspectWidth(w, h, m) ==
    Closest((m * w) \div h, Ceil(m * w, h),
            Abs(w * m - ((m * w) \div h) * h), Abs(w * m - Ceil(m * w, h) * h))

\* PIL's round_aspect for the height, width > height: the candidates are
\* the floor and the ceiling of m*h/w and the key of n is 0 for n = 0 and
\* |w/h - m/n| otherwise, compared here after multiplying by h*floor*ceiling
RoundAspectHeight(w, h, m) ==
    IF (m * h) \div w = 0 THEN 1
    ELSE Closest((m * h) \div w, Ceil(m * h, w),
                 Abs(w * ((m * h) \div w) - m * h) * Ceil(m * h, w),
                 Abs(w * Ceil(m * h, w) - m * h) * ((m * h) \div w))

\* PIL.Image.Image.thumbnail((m, m))
Thumbnail(image, m) ==
    IF m >= image.size[1] /\ m >= image.size[2] THEN image
    ELSE IF image.size[2] >= image.size[1]
    THEN [image EXCEPT !.size = <<RoundAspectWidth(image.size[1], image.size[2], m), m>>]
    ELSE [image EXCEPT !.size = <<m, RoundAspectHeight(image.size[1], image.size[2], m)>>]

\* ------------------------------------------------------- _resize_if_needed
ResizeIfNeededSquash(image, max_dim) ==
    IF max_dim = None \/ max_dim = Some(0) THEN image
    ELSE IF Max(image.size[1], image.size[2]) <= max_dim[1] THEN image
    ELSE [image EXCEPT !.size = <<max_dim[1], max_dim[1]>>]

ResizeIfNeeded(image, max_dim) ==
    IF max_dim = None \/ max_dim = Some(0) THEN image
    ELSE IF Max(image.size[1], image.size[2]) <= max_dim[1] THEN image
    ELSE Thumbnail(image, max_dim[1])

\* ------------------------------------------------------------ render_image
PathInput(path) == [variant |-> "path", ref |-> path]
BytesInput(bytes) == [variant |-> "bytes", ref |-> bytes]

\* line 57
Canonical(fmt) == IF fmt = "JPG" THEN "JPEG" ELSE fmt

ImageFormatNoAlias(image_input, mime_type) ==
    IF image_input.variant # "path" /\ Len(mime_type) > 1
    THEN Upper(mime_type[Len(mime_type)])
    ELSE "PNG"

\* lines 54-57: the output encoding
ImageFormat(image_input, mime_type) ==
    IF image_input.variant # "path" /\ Len(mime_type) > 1
    THEN Canonical(Upper(mime_type[Len(mime_type)]))
    ELSE "PNG"

\* lines 43-47
OpenImage(image_input) ==
    IF image_input.variant = "path"
    THEN PILOpenPath(image_input.ref)
    ELSE PILOpenBytes(image_input.ref)

\* lines 59-62
ImageResult(trace, save, fmt) ==
    Bind(save, LAMBDA saved :
        IF ~saved.ok THEN Out(FALSE, saved.val, trace \o saved.trace)
        ELSE Out(TRUE, <<ImageContent(saved.val, Lower(fmt))>>, trace \o saved.trace))

\* lines 49-62
EncodeImage(open, fmt, max_dimension) ==
    Bind(open, LAMBDA opened :
        IF ~opened.ok THEN opened
        ELSE ImageResult(opened.trace, PILSave(ResizeIfNeeded(opened.val, max_dimension), fmt), fmt))

\* the try block of render_image
RenderImageBody(image_input, mime_type, max_dimension) ==
    EncodeImage(OpenImage(image_input), ImageFormat(image_input, mime_type), max_dimension)

\* lines 64-66
CatchImage(body) ==
    Bind(body, LAMBDA r :
        IF r.ok THEN r
        ELSE Out(TRUE, <<TextItem(<<"Error", " rendering image: ">> \o r.val)>>, r.trace))

RenderImage(image_input, mime_type, max_dimension) ==
    CatchImage(RenderImageBody(image_input, mime_type, max_dimension))

\* ------------------------------------------- collaborators: PDF capabilities
AsPdf(read) ==
    Bind(read, LAMBDA r :
        IF ~r.ok THEN r
        ELSE IF r.val.kind # "pdf" THEN Out(FALSE, <<"Unable to get page count.">>, <<>>)
        ELSE r)

\* the PDF behind a handle (path or bytes), or an exception
PdfOf(pdf_input) ==
    AsPdf(IF pdf_input.variant = "path" THEN ReadBytes(pdf_input.ref)
          ELSE Out(TRUE, pdf_input.ref, <<>>))

InfoOf(doc) ==
    Bind(doc, LAMBDA d :
        IF d.ok THEN Out(TRUE, [Pages |-> d.val.pages], <<Ev("pdfinfo", FALSE)>>)
        ELSE Out(FALSE, d.val, <<Ev("pdfinfo", TRUE)>>))

\* pdf2image.pdfinfo_from_path / pdfinfo_from_bytes: the info dictionary
PdfInfo(pdf_input) == InfoOf(PdfOf(pdf_input))

\* the bitmaps of pages lo..hi of a document
RECURSIVE PageBitmaps(_, _, _)
PageBitmaps(pdf, lo, hi) ==
    IF lo > hi THEN <<>>
    ELSE <<Bitmap(pdf.psize, "RGB", lo)>> \o PageBitmaps(pdf, lo + 1, hi)

RasterizeDoc(doc, first, last, failed, done) ==
    Bind(doc, LAMBDA d :
        IF ~d.ok THEN Out(FALSE, d.val, failed)
        ELSE IF d.val.raster = "raises" THEN Out(FALSE, <<"Unable to render page.">>, failed)
        ELSE IF d.val.raster = "empty" THEN Out(TRUE, <<>>, done)
        ELSE Out(TRUE,
                 PageBitmaps(d.val,
                             IF first = None \/ first[1] < 1 THEN 1 ELSE first[1],
                             IF last = None \/ last[1] > d.val.pages THEN d.val.pages ELSE last[1]),
                 done))

\* pdf2image.convert_from_path / convert_from_bytes with the optional
\* first_page / last_page keywords: a missing or too small first page is 1,
\* a missing or too large last page is the page count, an empty range is []
Rasterize(pdf_input, first, last) ==
    RasterizeDoc(PdfOf(pdf_input), first, last,
                 <<Event("rasterize", first, last, TRUE)>>,
                 <<Event("rasterize", first, last, FALSE)>>)

\* --------------------------------------------------- convert_pdf_to_images
\* lines 97-100: a keyword is passed when its value is truthy
Keyword(page) == IF page # None /\ page[1] # 0 THEN page ELSE None

\* lines 108-114
WrapRasterError(rasterized) ==
    Bind(rasterized, LAMBDA r :
        IF r.ok THEN r
        ELSE Out(FALSE, <<"Failed to convert PDF to Image: ">> \o r.val, r.trace))

ConvertPdfToImages(pdf_input, first_page, last_page) ==
    WrapRasterError(Rasterize(pdf_input, Keyword(first_page), Keyword(last_page)))

\* ---------------------------------------------------- render_document_page
\* dict.get(key, default) on the info dictionary
Get(info, key, default) == IF key \in DOMAIN info THEN info[key] ELSE default

PageOutOfRangeOffByOne(page_number, total_pages) == page_number > total_pages + 1

\* line 141
PageOutOfRange(page_number, total_pages) == page_number > total_pages

FooterAlwaysHint(page_number, total_pages) ==
    <<"Displaying Page ", ToString(page_number), " of ", ToString(total_pages), ".">>
    \o (IF page_number <= total_pages
        THEN <<" Call this tool again with page_number=", ToString(page_number + 1), " to see the next page.">>
        ELSE <<>>)

\* lines 165-167
Footer(page_number, total_pages) ==
    <<"Displaying Page ", ToString(page_number), " of ", ToString(total_pages), ".">>
    \o (IF page_number < total_pages
        THEN <<" Call this tool again with page_number=", ToString(page_number + 1), " to see the next page.">>
        ELSE <<>>)

\* lines 169-172
PageResult(trace, save, page_number, total_pages) ==
    Bind(save, LAMBDA saved :
        IF ~saved.ok THEN Out(FALSE, saved.val, trace \o saved.trace)
        ELSE Out(TRUE,
                 <<ImageContent(saved.val, "png"), TextItem(Footer(page_number, total_pages))>>,
                 trace \o saved.trace))

\* lines 151-172
RenderRasterized(trace, converted, page_number, total_pages, max_dimension) ==
    Bind(converted, LAMBDA images :
        IF ~images.ok THEN Out(FALSE, images.val, trace \o images.trace)
        ELSE IF images.val = <<>>
        THEN Out(TRUE,
                 <<TextItem(<<"Error", ": Could not render page ", ToString(page_number),
                              ". The document might be empty or invalid.">>)>>,
                 trace \o images.trace)
        ELSE PageResult(trace \o images.trace,
                        PILSave(ResizeIfNeeded(images.val[1], max_dimension), "PNG"),
                        page_number, total_pages))

\* lines 141-172
RenderCounted(pdf_input, trace, page_number, total_pages, max_dimension) ==
    IF PageOutOfRange(page_number, total_pages)
    THEN Out(TRUE,
             <<TextItem(<<"Error", ": Page ", ToString(page_number),
                          " does not exist. The document has ",
                          ToString(total_pages), " pages.">>)>>,
             trace)
    ELSE RenderRasterized(trace,
                          ConvertPdfToImages(pdf_input, Some(page_number), Some(page_number)),
                          page_number, total_pages, max_dimension)

\* lines 139-172
RenderWithInfo(pdf_input, pdfinfo, page_number, max_dimension) ==
    Bind(pdfinfo, LAMBDA info :
        IF ~info.ok THEN info
        ELSE RenderCounted(pdf_input, info.trace, page_number, Get(info.val, "Pages", 0), max_dimension))

\* the try block of render_document_page
RenderDocumentPageBody(pdf_input, page_number, max_dimension) ==
    RenderWithInfo(pdf_input, PdfInfo(pdf_input), page_number, max_dimension)

\* lines 174-178
CatchDocument(body) ==
    Bind(body, LAMBDA r :
        IF r.ok THEN r
        ELSE Out(TRUE, <<TextItem(<<"Error", " rendering document: ">> \o r.val)>>, r.trace))

RenderDocumentPageNoCatch(pdf_input, page_number, max_dimension) ==
    RenderDocumentPageBody(pdf_input, page_number, max_dimension)

RenderDocumentPage(pdf_input, page_number, max_dimension) ==
    CatchDocument(RenderDocumentPageBody(pdf_input, page_number, max_dimension))

\* ------------------------------------------- collaborators: HTML typesetter
AsText(read) ==
    Bind(read, LAMBDA r :
        IF ~r.ok THEN r
        ELSE IF r.val.kind # "html"
        THEN Out(FALSE, <<"'utf-8' codec can't decode byte">>, <<>>)
        ELSE r)

\* open(path, "r", encoding="utf-8").read()
ReadText(path) == AsText(ReadBytes(path))

\* weasyprint.HTML(string=html_content).write_pdf(presentational_hints=True)
Typeset(html_content) ==
    IF html_content.layout = "ok"
    THEN Out(TRUE, html_content.pdf, <<Ev("write_pdf", FALSE)>>)
    ELSE Out(FALSE, <<"layout failed">>, <<Ev("write_pdf", TRUE)>>)

ConversionThreadInline == "loop"

\* lines 79-81: asyncio.to_thread runs write_pdf on a worker thread
ConversionThread == "worker"

\* --------------------------------------------------- get_local_file_visual
Req(tool, input, mime_type, page_number, max_dimension) ==
    [tool |-> tool, input |-> input, mime_type |-> mime_type,
     page_number |-> page_number, max_dimension |-> max_dimension]

MimeStr(mime_type) == JoinSlash(mime_type)

DispatchKindLoose(mime_type) ==
    IF Len(mime_type) > 1 /\ mime_type[1] = "image" THEN "image"
    ELSE IF Len(mime_type) > 1 /\ mime_type[1] = "application" THEN "pdf"
    ELSE IF mime_type = <<"text", "html">> THEN "html"
    ELSE "other"

\* lines 40, 44, 48, 58: the branch taken for a MIME type
DispatchKind(mime_type) ==
    IF Len(mime_type) > 1 /\ mime_type[1] = "image" THEN "image"
    ELSE IF mime_type = <<"application", "pdf">> THEN "pdf"
    ELSE IF mime_type = <<"text", "html">> THEN "html"
    ELSE "other"

\* lines 61-63: the outer except
CatchReading(body) ==
    Bind(body, LAMBDA r :
        IF r.ok THEN r
        ELSE Out(TRUE, <<TextItem(<<"Error", " reading file: ">> \o r.val)>>, r.trace))

\* lines 55-56: the inner except of the HTML branch
CatchHtml(body) ==
    Bind(body, LAMBDA r :
        IF r.ok THEN r
        ELSE Out(TRUE, <<TextItem(<<"Error", " rendering HTML file: ">> \o r.val)>>, r.trace))

\* the outcome of a renderer, after the record of its invocation
Invoked(op, outcome) == Bind(outcome, LAMBDA r : Out(r.ok, r.val, <<Ev(op, FALSE)>> \o r.trace))

\* an outcome after the collaborator invocations made before it
After(trace, outcome) == Bind(outcome, LAMBDA r : Out(r.ok, r.val, trace \o r.trace))

Returned(out) == [await |-> FALSE, out |-> out, html |-> Garbage]
Suspended(html, trace) == [await |-> TRUE, out |-> Out(TRUE, <<>>, trace), html |-> html]

\* lines 50-53: the HTML branch up to the await
HtmlStart(read, installed) ==
    Bind(read, LAMBDA html_content :
        IF ~html_content.ok
        THEN Returned(CatchReading(CatchHtml(html_content)))
        ELSE IF ~installed
        THEN Returned(CatchReading(CatchHtml(
                 Out(FALSE, <<"weasyprint is required for PDF rendering.">>,
                     <<Ev("convert_html_to_pdf", TRUE)>>))))
        ELSE Suspended(html_content.val, <<Ev("convert_html_to_pdf", FALSE)>>))

\* lines 39-63
Dispatch(req, mime_type, installed) ==
    IF DispatchKind(mime_type) = "image"
    THEN Returned(CatchReading(Invoked("render_image",
             RenderImage(PathInput(req.input), <<"image", "png">>, req.max_dimension))))
    ELSE IF DispatchKind(mime_type) = "pdf"
    THEN Returned(CatchReading(Invoked("render_document_page",
             RenderDocumentPage(PathInput(req.input), req.page_number, req.max_dimension))))
    ELSE IF DispatchKind(mime_type) = "html"
    THEN HtmlStart(ReadText(req.input), installed)
    ELSE Returned(Out(TRUE,
             <<TextItem(<<"Error", ": Unsupported file type '", MimeStr(mime_type),
                          "'. Only PDF, Images, and HTML are supported for visual inspection.">>)>>,
             <<>>))

\* lines 35-37
MimeOf(guess) == IF guess = None THEN <<"application", "octet-stream">> ELSE guess[1]

\* get_local_file_visual up to its return or to the await of line 53
GLFVStart(req, installed) ==
    IF ~PathExists(req.input)
    THEN Returned(Out(TRUE, <<TextItem(<<"Error", ": File ", "not found", " at ", PathStr(req.input)>>)>>, <<>>))
    ELSE IF ~PathIsFile(req.input)
    THEN Returned(Out(TRUE, <<TextItem(<<"Error", ": Path is ", "not a file", ": ", PathStr(req.input)>>)>>, <<>>))
    ELSE Dispatch(req, MimeOf(GuessType(req.input)), installed)

GLFVResumeFirstPage(req, trace, awaited) ==
    IF ~awaited.ok
    THEN CatchReading(CatchHtml(Out(FALSE, awaited.val, trace \o awaited.trace)))
    ELSE CatchReading(CatchHtml(After(trace \o awaited.trace, Invoked("render_document_page",
             RenderDocumentPage(BytesInput(awaited.val), 1, req.max_dimension)))))

\* get_local_file_visual from the completion of the await of line 53 on
GLFVResume(req, trace, awaited) ==
    IF ~awaited.ok
    THEN CatchReading(CatchHtml(Out(FALSE, awaited.val, trace \o awaited.trace)))
    ELSE CatchReading(CatchHtml(After(trace \o awaited.trace, Invoked("render_document_page",
             RenderDocumentPage(BytesInput(awaited.val), req.page_number, req.max_dimension)))))

\* a terminal entry point called directly
Direct(req) ==
    IF req.tool = "render_image"
    THEN RenderImage(req.input, req.mime_type, req.max_dimension)
    ELSE RenderDocumentPage(req.input, req.page_number, req.max_dimension)

\* an invocation from its start to its return or its first await
Start(req, installed) ==
    IF req.tool = "get_local_file_visual"
    THEN GLFVStart(req, installed)
    ELSE Returned(Direct(req))

\* ------------------------------------------------------------------- state
VARIABLES calls, jobs, weasyprint_installed

vars == <<calls, jobs, weasyprint_installed>>

CallIds == 1..NumCalls

NoReq == Req("none", Garbage, <<>>, 1, None)
NoOut == Out(TRUE, <<>>, <<>>)
IdleCall == [pc |-> "idle", req |-> NoReq, result |-> NoOut, overlapped |-> FALSE]
NoJob == [state |-> "none", html |-> Garbage, thread |-> "none", outcome |-> NoOut]

\* the inputs of the model
MaxDims == {None} \cup {Some(m) : m \in 0..MaxBound}
PageNumbers == (0 - 1)..(MaxPages + 1)
MimeHints == {<<"image", "png">>, <<"image", "jpg">>, <<"image", "jpeg">>,
              <<"image", "gif">>, <<"image", "svg+xml">>, <<"jpeg">>}
ImagePaths == {f.path : f \in {g \in Files : g.path.ext \in {"png", "jpg"}}} \cup {Path("/nowhere", "png")}
PdfPaths == {f.path : f \in {g \in Files : g.path.ext = "pdf"}} \cup {Path("/nowhere", "pdf")}

Inputs ==
    {Req("get_local_file_visual", p, <<>>, n, m) : p \in Paths, n \in PageNumbers, m \in MaxDims}
    \cup {Req("render_image", BytesInput(b), h, 1, m) : b \in Images \cup {Garbage}, h \in MimeHints, m \in MaxDims}
    \cup {Req("render_image", PathInput(p), h, 1, m) :
             p \in ImagePaths, h \in {<<"image", "png">>, <<"image", "jpeg">>}, m \in MaxDims}
    \cup {Req("render_document_page", BytesInput(b), <<>>, n, m) :
             b \in Pdfs \cup {Garbage}, n \in PageNumbers, m \in MaxDims}
    \cup {Req("render_document_page", PathInput(p), <<>>, n, m) :
             p \in PdfPaths, n \in PageNumbers, m \in MaxDims}

\* the inputs of the concurrent specification: two HTML files that typeset
\* to different documents, one that fails to typeset, a PDF and an image
ConcPaths ==
    {f.path : f \in {g \in Files : g.bytes.kind = "html" /\ g.bytes.layout = "ok"
                                     /\ g.bytes.pdf.raster = "ok" /\ g.bytes.pdf.pages <= 2}}
    \cup {f.path : f \in {g \in Files : g.bytes.kind = "html" /\ g.bytes.layout = "fails"}}
    \cup {f.path : f \in {g \in Files : g.bytes.kind = "pdf" /\ g.bytes.raster = "ok"
                                          /\ g.bytes.pages = 2 /\ g.bytes.psize = <<1, MaxSide>>}}
    \cup {Path("/corrupt", "png")}

ConcInputs == {Req("get_local_file_visual", p, <<>>, n, None) : p \in ConcPaths, n \in 1..2}

\* the inputs of the specification with fairness: an HTML file that
\* typesets, one that does not, and a PDF, each at page 1
LivePaths ==
    {f.path : f \in {g \in Files : g.bytes.kind = "html" /\ g.bytes.layout = "ok"
                                     /\ g.bytes.pdf.raster = "ok" /\ g.bytes.pdf.pages = 1}}
    \cup {f.path : f \in {g \in Files : g.bytes.kind = "html" /\ g.bytes.layout = "fails"}}
    \cup {f.path : f \in {g \in Files : g.bytes.kind = "pdf" /\ g.bytes.raster = "ok"
                                          /\ g.bytes.pages = 2 /\ g.bytes.psize = <<1, MaxSide>>}}

LiveInputs == {Req("get_local_file_visual", p, <<>>, 1, None) : p \in LivePaths}

Init ==
    /\ calls = [c \in CallIds |-> IdleCall]
    /\ jobs = [c \in CallIds |-> NoJob]
    /\ weasyprint_installed \in BOOLEAN

\* the event loop thread is free: no conversion is running on it
LoopFree == \A c \in CallIds : ~(jobs[c].state = "running" /\ jobs[c].thread = "loop")

\* the dispatch layer schedules a tool invocation
Request(c, req) ==
    /\ calls[c].pc = "idle"
    /\ calls' = [calls EXCEPT ![c] = [IdleCall EXCEPT !.pc = "pending", !.req = req]]
    /\ UNCHANGED <<jobs, weasyprint_installed>>

\* the effect of running an invocation to its return or its await
Ran(c, s, overlapped) ==
    /\ calls' = [calls EXCEPT ![c].pc = IF s.await THEN "awaiting" ELSE "done",
                              ![c].result = s.out,
                              ![c].overlapped = overlapped]
    /\ jobs' = [jobs EXCEPT ![c] = IF s.await
                                   THEN [state |-> "running", html |-> s.html,
                                         thread |-> ConversionThread, outcome |-> NoOut]
                                   ELSE NoJob]

\* the event loop runs the invocation up to its return or its await
Run(c) ==
    /\ calls[c].pc = "pending"
    /\ LoopFree
    /\ \E s \in {Start(calls[c].req, weasyprint_installed)} :
           Ran(c, s, \E d \in CallIds \ {c} : jobs[d].state = "running")
    /\ UNCHANGED weasyprint_installed

\* the thread running write_pdf finishes
ConversionCompletes(c) ==
    /\ jobs[c].state = "running"
    /\ jobs' = [jobs EXCEPT ![c].state = "finished", ![c].outcome = Typeset(jobs[c].html)]
    /\ UNCHANGED <<calls, weasyprint_installed>>

AwaitedOutcomeShared(c) == jobs[CHOOSE d \in CallIds : jobs[d].state = "finished"].outcome

\* line 53: the value of the await is the result of this invocation's job
AwaitedOutcome(c) == jobs[c].outcome

\* the event loop resumes the invocation after its await
Resume(c) ==
    /\ calls[c].pc = "awaiting"
    /\ jobs[c].state = "finished"
    /\ LoopFree
    /\ \E r \in {GLFVResume(calls[c].req, calls[c].result.trace, AwaitedOutcome(c))} :
           calls' = [calls EXCEPT ![c].pc = "done", ![c].result = r]
    /\ jobs' = [jobs EXCEPT ![c] = NoJob]
    /\ UNCHANGED weasyprint_installed

\* the caller takes the result; the slot serves the next invocation
Collect(c) ==
    /\ calls[c].pc = "done"
    /\ calls' = [calls EXCEPT ![c] = IdleCall]
    /\ UNCHANGED <<jobs, weasyprint_installed>>

\* one invocation at a time, over all the inputs
Next ==
    \/ \E req \in Inputs : Request(1, req)
    \/ Run(1)
    \/ ConversionCompletes(1)
    \/ Resume(1)
    \/ Collect(1)

Spec == Init /\ [][Next]_vars

\* concurrent invocations
ConcNext ==
    \E c \in CallIds :
        \/ \E req \in ConcInputs : Request(c, req)
        \/ Run(c)
        \/ ConversionCompletes(c)
        \/ Resume(c)
        \/ Collect(c)

ConcSpec == Init /\ [][ConcNext]_vars

LiveNext ==
    \E c \in CallIds :
        \/ \E req \in LiveInputs : Request(c, req)
        \/ Run(c)
        \/ ConversionCompletes(c)
        \/ Resume(c)
        \/ Collect(c)

\* the event loop runs every ready task; nothing bounds the time a
\* conversion takes, and nothing obliges callers to call or to collect
LiveSpec ==
    /\ Init
    /\ [][LiveNext]_vars
    /\ \A c \in CallIds : WF_vars(Run(c)) /\ WF_vars(Resume(c))

\* ----------------------------------------------------------------- claims
Done(c) == calls[c].pc = "done"
Contains(tokens, s) == \E i \in DOMAIN tokens : tokens[i] = s
IsErrorList(val) ==
    /\ Len(val) = 1
    /\ val[1].type = "text"
    /\ Len(val[1].text) >= 1
    /\ val[1].text[1] = "Error"
IsImageList(val) == Len(val) = 1 /\ val[1].type = "image"
IsPageList(val) == Len(val) = 2 /\ val[1].type = "image" /\ val[2].type = "text"
AnyFailed(trace) == \E i \in DOMAIN trace : trace[i].failed
Ops(trace) == {trace[i].op : i \in DOMAIN trace}
IsRdp(c) == calls[c].req.tool = "render_document_page"
IsImg(c) == calls[c].req.tool = "render_image"
IsGlfv(c) == calls[c].req.tool = "get_local_file_visual"

\* C1: a terminal entry point never lets an exception escape; its result is
\* a non-empty list, one image, an image and a text, or one text that begins
\* with "Error", and it is that one text whenever a collaborator failed.
C1_NoEscape ==
    \A c \in CallIds : Done(c) =>
        /\ calls[c].result.ok
        /\ Len(calls[c].result.val) >= 1
        /\ \/ IsErrorList(calls[c].result.val)
           \/ IsImageList(calls[c].result.val)
           \/ IsPageList(calls[c].result.val)
        /\ AnyFailed(calls[c].result.trace) => IsErrorList(calls[c].result.val)

C1_Witness ==
    \E c \in CallIds :
        /\ Done(c) /\ IsRdp(c)
        /\ \E i \in DOMAIN calls[c].result.trace :
               calls[c].result.trace[i].op = "rasterize" /\ calls[c].result.trace[i].failed
        /\ IsErrorList(calls[c].result.val)

\* C2: render_document_page with a page number greater than the page count
\* of the document returns one text with the requested number and the
\* total, no image, and never invokes the rasterizer.
C2_PageBeyondTotal ==
    \A c \in CallIds :
        (/\ Done(c) /\ IsRdp(c)
         /\ PdfOf(calls[c].req.input).ok
         /\ calls[c].req.page_number > PdfOf(calls[c].req.input).val.pages)
        => /\ calls[c].result.ok
           /\ IsErrorList(calls[c].result.val)
           /\ Contains(calls[c].result.val[1].text, ToString(calls[c].req.page_number))
           /\ Contains(calls[c].result.val[1].text, ToString(PdfOf(calls[c].req.input).val.pages))
           /\ "rasterize" \notin Ops(calls[c].result.trace)

C2_Witness ==
    \E c \in CallIds :
        /\ Done(c) /\ IsRdp(c)
        /\ PdfOf(calls[c].req.input).ok
        /\ PdfOf(calls[c].req.input).val.pages = 2
        /\ calls[c].req.page_number = 3
        /\ IsErrorList(calls[c].result.val)

\* C3: a successful render_document_page(doc, n) on a document of N pages
\* returns exactly [image tagged "png", footer]; the footer is
\* "Displaying Page n of N." followed by the hint naming n+1 iff n < N.
C3_Footer ==
    \A c \in CallIds :
        (Done(c) /\ IsRdp(c) /\ calls[c].result.ok /\ ~IsErrorList(calls[c].result.val))
        => LET n == calls[c].req.page_number
               val == calls[c].result.val
           IN  /\ PdfOf(calls[c].req.input).ok
               /\ IsPageList(val)
               /\ val[1].format = "png"
               /\ val[1].data.codec = "PNG"
               /\ LET N == PdfOf(calls[c].req.input).val.pages
                  IN  val[2].text =
                          IF n < N
                          THEN <<"Displaying Page ", ToString(n), " of ", ToString(N), ".",
                                 " Call this tool again with page_number=", ToString(n + 1),
                                 " to see the next page.">>
                          ELSE <<"Displaying Page ", ToString(n), " of ", ToString(N), ".">>

C3_Witness ==
    \E c \in CallIds :
        /\ Done(c) /\ IsRdp(c)
        /\ calls[c].req.page_number = 1
        /\ IsPageList(calls[c].result.val)
        /\ calls[c].result.val[2].text = <<"Displaying Page ", "1", " of ", "1", ".">>

\* the MIME type get_local_file_visual works with
InferredMime(path) == IF GuessType(path) = None THEN <<"application", "octet-stream">> ELSE GuessType(path)[1]
Unsupported(mime) == mime[1] # "image" /\ mime # <<"application", "pdf">> /\ mime # <<"text", "html">>

\* C4: get_local_file_visual answers a missing path with one text error
\* containing "not found", a path that is no regular file with one containing
\* "not a file", a file of an unsupported MIME type (octet-stream when none
\* is inferred) with one naming that type; it invokes no renderer in any of
\* the three cases.
C4_InputErrors ==
    \A c \in CallIds :
        (Done(c) /\ IsGlfv(c)) =>
            LET path == calls[c].req.input
                val == calls[c].result.val
            IN  /\ ~PathExists(path) =>
                       /\ IsErrorList(val) /\ Contains(val[1].text, "not found")
                       /\ calls[c].result.trace = <<>>
                /\ (PathExists(path) /\ ~PathIsFile(path)) =>
                       /\ IsErrorList(val) /\ Contains(val[1].text, "not a file")
                       /\ calls[c].result.trace = <<>>
                /\ (PathIsFile(path) /\ Unsupported(InferredMime(path))) =>
                       /\ IsErrorList(val)
                       /\ Contains(val[1].text, JoinSlash(InferredMime(path)))
                       /\ calls[c].result.trace = <<>>

C4_Witness ==
    \E c \in CallIds :
        /\ Done(c) /\ IsGlfv(c)
        /\ calls[c].req.input = Path("/archive", "zip")
        /\ IsErrorList(calls[c].result.val)
        /\ Contains(calls[c].result.val[1].text, "application/zip")

\* the HTML file of a request was read and typeset
Typesetted(c) ==
    /\ IsGlfv(c)
    /\ PathIsFile(calls[c].req.input)
    /\ calls[c].req.input.ext = "html"
    /\ ReadText(calls[c].req.input).ok
    /\ weasyprint_installed
    /\ Typeset(ReadText(calls[c].req.input).val).ok

\* C5: for an HTML file that is read and typeset, get_local_file_visual
\* returns what render_document_page returns on the typeset PDF bytes with
\* the same page_number and max_dimension, which is also what it returns on
\* a PDF file holding those bytes; a one-page conversion yields
\* [image, "Displaying Page 1 of 1."].
C5_HtmlConverges ==
    \A c \in CallIds :
        (Done(c) /\ Typesetted(c)) =>
            LET pdf == Typeset(ReadText(calls[c].req.input).val).val
                n == calls[c].req.page_number
                m == calls[c].req.max_dimension
            IN  /\ calls[c].result.ok
                /\ calls[c].result.val = RenderDocumentPage(BytesInput(pdf), n, m).val
                /\ \A p \in PdfPaths : Stat(p).bytes = pdf =>
                       calls[c].result.val = Start(Req("get_local_file_visual", p, <<>>, n, m), weasyprint_installed).out.val
                /\ (pdf.pages = 1 /\ pdf.raster = "ok" /\ n = 1) =>
                       /\ IsPageList(calls[c].result.val)
                       /\ calls[c].result.val[2].text = <<"Displaying Page ", "1", " of ", "1", ".">>

C5_Witness ==
    \E c \in CallIds :
        /\ Done(c) /\ Typesetted(c)
        /\ calls[c].req.page_number = 2
        /\ IsPageList(calls[c].result.val)
        /\ calls[c].result.val[1].data.page = 2
        /\ \E p \in PdfPaths : Stat(p).bytes = Typeset(ReadText(calls[c].req.input).val).val

\* the bitmap a request's renderer hands to the Resizer
SourceSize(req) ==
    IF req.tool = "render_image" THEN OpenImage(req.input).val.size
    ELSE PdfOf(req.input).val.psize

\* the size of a rendered bitmap against the size of its source
C6_Sizes ==
    \A c \in CallIds :
        (/\ Done(c) /\ (IsImg(c) \/ IsRdp(c))
         /\ calls[c].result.ok
         /\ ~IsErrorList(calls[c].result.val))
        => LET src == SourceSize(calls[c].req)
               out == calls[c].result.val[1].data.size
               md == calls[c].req.max_dimension
           IN  /\ md = None => out = src
               /\ (md # None /\ md[1] > 0 /\ Max(src[1], src[2]) <= md[1]) => out = src
               /\ (md # None /\ md[1] > 0 /\ Max(src[1], src[2]) > md[1]) =>
                      /\ Max(out[1], out[2]) = md[1]
                      /\ out[1] >= 1 /\ out[2] >= 1
                      /\ out[1] <= src[1] /\ out[2] <= src[2]
                      /\ IF src[2] >= src[1]
                         THEN Abs(out[1] * src[2] - md[1] * src[1]) < src[2]
                         ELSE Abs(out[2] * src[1] - md[1] * src[2]) < src[1]

\* a PNG file with a positive bound never fails in the Resizer
C6_NoError ==
    \A c \in CallIds :
        (/\ Done(c) /\ IsImg(c)
         /\ calls[c].req.input.variant = "path"
         /\ OpenImage(calls[c].req.input).ok)
        => IsImageList(calls[c].result.val)

\* C6: the Resizer is the identity without a bound and when the larger side
\* is within the bound; beyond a positive bound the larger side of the result
\* equals the bound, the other side is within one pixel of its proportional
\* value, nothing grows, and no error results.
C6_Resizer == C6_Sizes /\ C6_NoError

C6_Witness ==
    \E c \in CallIds :
        /\ Done(c) /\ IsImg(c)
        /\ IsImageList(calls[c].result.val)
        /\ OpenImage(calls[c].req.input).val.size = <<3, 2>>
        /\ calls[c].req.max_dimension = Some(2)
        /\ calls[c].result.val[1].data.size = <<2, 1>>

\* the encoding the policy of render_image selects
ExpectedEncoding(req) ==
    IF req.input.variant = "path" THEN "PNG"
    ELSE IF req.mime_type[2] = "jpg" THEN "JPEG"
    ELSE Upper(req.mime_type[2])

\* C7: render_image encodes a byte buffer in the format named by the subtype
\* of the MIME hint ("jpg" meaning "jpeg") and a path always as PNG; a
\* success is exactly one image whose tag is the lowercase name of the
\* encoding used, and the call succeeds whenever that encoding can be written.
C7_Encoding ==
    \A c \in CallIds :
        (/\ Done(c) /\ IsImg(c)
         /\ calls[c].req.input.variant = "path" \/ Len(calls[c].req.mime_type) = 2
         /\ OpenImage(calls[c].req.input).ok)
        => LET val == calls[c].result.val
               enc == ExpectedEncoding(calls[c].req)
               bitmap == ResizeIfNeeded(OpenImage(calls[c].req.input).val, calls[c].req.max_dimension)
           IN  /\ calls[c].result.ok
               /\ IsImageList(val) \/ IsErrorList(val)
               /\ IsImageList(val) =>
                      /\ val[1].data.codec = enc
                      /\ val[1].format = Lower(val[1].data.codec)
               /\ (enc \in KnownFormats /\ ~(enc = "JPEG" /\ bitmap.mode = "RGBA")) => IsImageList(val)

C7_Witness ==
    \E c \in CallIds :
        /\ Done(c) /\ IsImg(c)
        /\ calls[c].req.input.variant = "bytes"
        /\ calls[c].req.mime_type = <<"image", "jpg">>
        /\ IsImageList(calls[c].result.val)
        /\ calls[c].result.val[1].format = "jpeg"
        /\ calls[c].result.val[1].data.codec = "JPEG"

\* C8: every rasterizer invocation of render_document_page is constrained to
\* first_page = last_page = page_number, and the returned image is the
\* rasterization of page page_number.
C8_ExactPage ==
    \A c \in CallIds :
        (Done(c) /\ IsRdp(c)) =>
            /\ \A i \in DOMAIN calls[c].result.trace :
                   calls[c].result.trace[i].op = "rasterize" =>
                       /\ calls[c].result.trace[i].first = Some(calls[c].req.page_number)
                       /\ calls[c].result.trace[i].last = Some(calls[c].req.page_number)
            /\ IsPageList(calls[c].result.val) =>
                   calls[c].result.val[1].data.page = calls[c].req.page_number

\* C9: while the conversion of one invocation is in flight, every other
\* scheduled invocation is run, to its return or to its own await.
C9_NotBlocked ==
    \A c \in CallIds : \A d \in CallIds \ {c} :
        (jobs[c].state = "running" /\ calls[d].pc = "pending")
            ~> (calls[d].pc \in {"done", "awaiting"})

C9_Witness ==
    \E c \in CallIds : \E d \in CallIds \ {c} :
        /\ jobs[c].state = "running"
        /\ calls[d].pc = "done"
        /\ calls[d].overlapped
        /\ IsPageList(calls[d].result.val)

\* the result of an invocation run alone
AloneFrom(req, s) ==
    IF s.await THEN GLFVResume(req, s.out.trace, Typeset(s.html)) ELSE s.out
Alone(req) == AloneFrom(req, Start(req, weasyprint_installed))

\* C10: under every interleaving, and after any earlier calls, the result of
\* an invocation is the result of running it alone on the same arguments.
C10_Isolated ==
    \A c \in CallIds : Done(c) => calls[c].result = Alone(calls[c].req)

C10_Witness ==
    \E c \in CallIds : \E d \in CallIds \ {c} :
        /\ Done(c) /\ Done(d)
        /\ calls[d].overlapped
        /\ Typesetted(c) /\ Typesetted(d)
        /\ IsPageList(calls[c].result.val) /\ IsPageList(calls[d].result.val)
        /\ calls[c].result.val # calls[d].result.val

====
